---- MODULE Spec2Model ----
(***************************************************************************)
(* TiddlyKeep: tiddlers stored on a Perkeep content store.                 *)
(*                                                                         *)
(* The store is a list of permanodes (mutable attribute nodes, changed     *)
(* only by appended claims) and content-addressed blobs.  Each operation   *)
(* of the TiddlyServer interface (PutTiddler, GetTiddler, DeleteTiddler,   *)
(* ListBag, ListRecipe) runs as a sequence of steps, one step per call     *)
(* into the store; a store call can fail when the run allows faults, and   *)
(* the steps of two operations interleave when the run allows overlap.     *)
(*                                                                         *)
(* Conventions: a permanode reference is the node's index in `nodes`, 0    *)
(* being the zero blob.Ref; a content reference is the content itself      *)
(* tagged with its kind (content addressing: equal bytes, equal ref), <<>> *)
(* being the zero blob.Ref; a string that is decoded byte by byte (the     *)
(* tiddler text) is a sequence of character codes.                         *)
(***************************************************************************)
EXTENDS Integers, Sequences, FiniteSets, TLC

\* Number of operations one run starts.
MaxOps == 3
\* Number of operations a run with overlapping operations starts.
MaxOpsConc == 2
\* Number of operations a run with failing store calls starts.
MaxOpsFault == 2
\* Ticks of the clock in one second, and the ticks a timed run lasts.
TicksPerSecond == 2
MaxTicks == 2
\* The last time a revision string is formatted from.
MaxTime == 3
\* The length of a tag of the text form.
MaxTagLen == 3

Procs == {"p1", "p2"}

-----------------------------------------------------------------------------
\* Inputs

tiddlyWikiIndex == "tiddlywiki.html"
systemTiddlerPrefix == "$:/"
HideTiddlers == "system"

SystemTitles == {"$:/Bar"}
Titles == {"Foo"} \cup SystemTitles

\* strings.HasPrefix over the titles of the model.
HasPrefix(s, prefix) == prefix = systemTiddlerPrefix /\ s \in SystemTitles

\* "hi", "aGk=" (base64 of "hi"), "aGk=\n" (the same, line-wrapped), "a".
TextHi == <<104, 105>>
TextB64 == <<97, 71, 107, 61>>
TextB64Wrapped == <<97, 71, 107, 61, 10>>
TextBad == <<97>>

Base64Types == {"application/pdf", "application/zip", "image/jpeg", "image/png",
    "image/gif", "image/x-icon", "application/font-woff", "application/x-font-ttf",
    "audio/ogg", "video/mp4", "audio/mp3", "audio/mp4",
    "application/vnd.openxmlformats-officedocument.wordprocessingml.document",
    "application/vnd.openxmlformats-officedocument.spreadsheetml.sheet",
    "application/vnd.openxmlformats-officedocument.presentationml.presentation",
    "application/epub+zip", "application/octet-stream"}

textEncoding(type) ==
    IF type \in Base64Types THEN "base64"
    ELSE IF type = "application/hta" THEN "utf16le"
    ELSE IF type \in {"text/vnd.tiddlywiki", "application/x-tiddler",
                      "application/x-tiddlers", "application/x-tiddler-html-div",
                      "text/vnd.tiddlywiki2-recipe", "text/plain", "text/css",
                      "text/html", "application/javascript", "application/json",
                      "image/svg+xml", "text/markdown", "text/x-markdown",
                      "application/enex+xml", "text/x-bibtex",
                      "application/x-bibtex"} THEN "utf8"
    ELSE ""

-----------------------------------------------------------------------------
\* encoding/base64, StdEncoding (padded, not strict)

\* The 6-bit value of a character code, -1 outside the alphabet.
B64Value(c) ==
    IF c >= 65 /\ c <= 90 THEN c - 65
    ELSE IF c >= 97 /\ c <= 122 THEN c - 71
    ELSE IF c >= 48 /\ c <= 57 THEN c + 4
    ELSE IF c = 43 THEN 62
    ELSE IF c = 47 THEN 63
    ELSE 0 - 1

B64Char(v) ==
    IF v < 26 THEN v + 65
    ELSE IF v < 52 THEN v + 71
    ELSE IF v < 62 THEN v - 4
    ELSE IF v = 62 THEN 43
    ELSE 47

IsNewline(c) == c = 10 \/ c = 13
NotNewline(c) == ~IsNewline(c)

\* One quantum of four characters, the last of the input or not: the bytes
\* it decodes to, or <<-1>> when it is corrupt.
B64Quantum(q, last) ==
    LET v1 == B64Value(q[1])
        v2 == B64Value(q[2])
        v3 == B64Value(q[3])
        v4 == B64Value(q[4])
    IN  IF v1 < 0 \/ v2 < 0 THEN <<0 - 1>>
        ELSE IF v3 >= 0 /\ v4 >= 0
             THEN <<v1 * 4 + v2 \div 16,
                    (v2 % 16) * 16 + v3 \div 4,
                    (v3 % 4) * 64 + v4>>
        ELSE IF ~last THEN <<0 - 1>>
        ELSE IF v3 >= 0 /\ q[4] = 61
             THEN <<v1 * 4 + v2 \div 16, (v2 % 16) * 16 + v3 \div 4>>
        ELSE IF q[3] = 61 /\ q[4] = 61 THEN <<v1 * 4 + v2 \div 16>>
        ELSE <<0 - 1>>

RECURSIVE B64Quanta(_)
B64Quanta(s) ==
    IF Len(s) = 0 THEN <<>>
    ELSE IF Len(s) < 4 THEN <<0 - 1>>
    ELSE LET head == B64Quantum(SubSeq(s, 1, 4), Len(s) = 4)
             rest == B64Quanta(SubSeq(s, 5, Len(s)))
         IN  IF head = <<0 - 1>> \/ rest = <<0 - 1>> THEN <<0 - 1>>
             ELSE head \o rest

\* base64.StdEncoding.DecodeString: [ok, bytes].  \r and \n are ignored.
DecodeString(s) ==
    LET bytes == B64Quanta(SelectSeq(s, NotNewline))
    IN  IF bytes = <<0 - 1>> THEN [ok |-> FALSE, bytes |-> <<>>]
        ELSE [ok |-> TRUE, bytes |-> bytes]

RECURSIVE EncodeToString(_)
EncodeToString(b) ==
    IF Len(b) = 0 THEN <<>>
    ELSE IF Len(b) = 1
         THEN <<B64Char(b[1] \div 4), B64Char((b[1] % 4) * 16), 61, 61>>
    ELSE IF Len(b) = 2
         THEN <<B64Char(b[1] \div 4),
                B64Char((b[1] % 4) * 16 + b[2] \div 16),
                B64Char((b[2] % 16) * 4), 61>>
    ELSE <<B64Char(b[1] \div 4),
           B64Char((b[1] % 4) * 16 + b[2] \div 16),
           B64Char((b[2] % 16) * 4 + b[3] \div 64),
           B64Char(b[3] % 64)>> \o EncodeToString(SubSeq(b, 4, Len(b)))

-----------------------------------------------------------------------------
\* Tiddlers and their JSON object

\* Times are counted in ticks of the clock from the zero time.Time.
\* Time.MarshalText (t.Revision.MarshalText()): RFC 3339 with the fraction of the second, if any.
RevisionText(t) ==
    "0001-01-01T00:00:0" \o ToString(t \div TicksPerSecond)
        \o (IF t % TicksPerSecond = 0 THEN "" ELSE ".5") \o "Z"

\* Strings of other forms that time.Parse(time.RFC3339, s) accepts: a zone
\* offset, a fraction with more digits.  s :> the time.
ParsedAlso ==
    ("0001-01-01T01:00:01+01:00" :> 1 * TicksPerSecond)
        @@ ("0001-01-01T00:00:00.500Z" :> 1)

\* time.Parse(time.RFC3339, s): [ok, time].
Parse(s) ==
    IF \E t \in 0..MaxTime : RevisionText(t) = s
    THEN [ok |-> TRUE, time |-> CHOOSE t \in 0..MaxTime : RevisionText(t) = s]
    ELSE IF s \in DOMAIN ParsedAlso THEN [ok |-> TRUE, time |-> ParsedAlso[s]]
    ELSE [ok |-> FALSE, time |-> 0]

\* blob.Ref.String: the zero Ref has a string too.
RefString(ref) == IF ref = 0 THEN "<invalid-blob.Ref>" ELSE "sha224-" \o ToString(ref)

\* A Tiddler as PutTiddler receives it.  Nothing that calls PutTiddler sets
\* Ref: neither decoder reads it, and the edit command copies Title, Bag and
\* Recipe only.
Tiddler(title, bag, recipe, type, text, tags) ==
    [Ref |-> 0, Title |-> title, Bag |-> bag, Recipe |-> recipe,
     Type |-> type, Text |-> text, Tags |-> tags, Revision |-> 0,
     Permissions |-> "", Created |-> "", Creator |-> "", Modified |-> "",
     Modifier |-> "", Fields |-> <<>>]

\* The fields addIfNonEmpty writes, by their key.
StringFields(t) ==
    [f \in {"tiddlykeep-ref", "bag", "recipe", "type", "permissions", "created",
            "creator", "modified", "modifier"} |->
        CASE f = "tiddlykeep-ref" -> RefString(t.Ref)
          [] f = "bag" -> t.Bag
          [] f = "recipe" -> t.Recipe
          [] f = "type" -> t.Type
          [] f = "permissions" -> t.Permissions
          [] f = "created" -> t.Created
          [] f = "creator" -> t.Creator
          [] f = "modified" -> t.Modified
          [] f = "modifier" -> t.Modifier]

\* The keys of the object: those of Fields, title and revision, and the keys
\* addIfNonEmpty and the tags test leave in it.
JSONKeys(t) ==
    DOMAIN t.Fields \cup {"title", "revision"}
        \cup {f \in DOMAIN StringFields(t) : StringFields(t)[f] # ""}
        \cup (IF t.Text # <<>> THEN {"text"} ELSE {})
        \cup (IF t.Tags # {} THEN {"tags"} ELSE {})

ToJSONObject(t) ==
    [f \in JSONKeys(t) |->
        CASE f = "title" -> t.Title
          [] f = "revision" -> RevisionText(t.Revision)
          [] f = "text" -> t.Text
          [] f = "tags" -> t.Tags
          [] f \in DOMAIN StringFields(t) /\ StringFields(t)[f] # "" -> StringFields(t)[f]
          [] OTHER -> t.Fields[f]]

\* delete(obj, key) for each key PutTiddler drops before it marshals.
MetaDropped == {"bag", "recipe", "revision", "tags", "text", "tiddlykeep-ref"}

MetaObject(t) ==
    LET obj == ToJSONObject(t)
    IN  [f \in DOMAIN obj \ MetaDropped |-> obj[f]]

\* The keys TiddlerMeta.MergeFrom and Tiddler.MergeFrom have a case for.
MergedKeys ==
    {"title", "revision", "tags", "type", "bag", "recipe", "permissions", "creator",
     "created", "modifier", "modified", "text", "fields"}

\* TiddlerMeta.MergeFrom / Tiddler.MergeFrom.  No object of the model has a
\* "fields" key, so Fields starts from the empty map; a revision that does not
\* parse leaves Revision as it is.
MergeFrom(t, obj) ==
    LET has(f) == f \in DOMAIN obj
    IN  [t EXCEPT !.Title = IF has("title") THEN obj["title"] ELSE @,
                  !.Revision = IF has("revision") /\ Parse(obj["revision"]).ok
                               THEN Parse(obj["revision"]).time ELSE @,
                  !.Tags = IF has("tags") THEN obj["tags"] ELSE @,
                  !.Type = IF has("type") THEN obj["type"] ELSE @,
                  !.Bag = IF has("bag") THEN obj["bag"] ELSE @,
                  !.Recipe = IF has("recipe") THEN obj["recipe"] ELSE @,
                  !.Permissions = IF has("permissions") THEN obj["permissions"] ELSE @,
                  !.Creator = IF has("creator") THEN obj["creator"] ELSE @,
                  !.Created = IF has("created") THEN obj["created"] ELSE @,
                  !.Modifier = IF has("modifier") THEN obj["modifier"] ELSE @,
                  !.Modified = IF has("modified") THEN obj["modified"] ELSE @,
                  !.Text = IF has("text") THEN obj["text"] ELSE @,
                  !.Fields = [f \in DOMAIN obj \ MergedKeys |-> obj[f]]]

-----------------------------------------------------------------------------
\* Strings as bytes, and the functions of package strings used on them

\* The bytes of the strings the text form is written with.
Bytes ==
    ("title" :> <<116, 105, 116, 108, 101>>) @@
    ("revision" :> <<114, 101, 118, 105, 115, 105, 111, 110>>) @@
    ("tiddlykeep-ref" :> <<116, 105, 100, 100, 108, 121, 107, 101, 101, 112, 45, 114, 101, 102>>) @@
    ("tags" :> <<116, 97, 103, 115>>) @@
    ("text" :> <<116, 101, 120, 116>>) @@
    ("Foo" :> <<70, 111, 111>>) @@
    ("<invalid-blob.Ref>" :> <<60, 105, 110, 118, 97, 108, 105, 100, 45, 98, 108, 111, 98, 46, 82, 101, 102, 62>>) @@
    ("0001-01-01T00:00:00Z" :> <<48, 48, 48, 49, 45, 48, 49, 45, 48, 49, 84, 48, 48, 58, 48, 48, 58, 48, 48, 90>>)

\* The string of bytes, "?" for bytes that are none of the strings above.
String(b) ==
    IF \E x \in DOMAIN Bytes : Bytes[x] = b
    THEN CHOOSE x \in DOMAIN Bytes : Bytes[x] = b
    ELSE "?"

\* unicode.IsSpace on a byte: tab, the line breaks, space.
IsSpace(c) == c \in {9, 10, 11, 12, 13, 32}

StartsWith(s, prefix) ==
    Len(s) >= Len(prefix) /\ SubSeq(s, 1, Len(prefix)) = prefix
EndsWith(s, suffix) ==
    Len(s) >= Len(suffix) /\ SubSeq(s, Len(s) - Len(suffix) + 1, Len(s)) = suffix
TrimPrefix(s, prefix) ==
    IF StartsWith(s, prefix) THEN SubSeq(s, Len(prefix) + 1, Len(s)) ELSE s
TrimSuffix(s, suffix) ==
    IF EndsWith(s, suffix) THEN SubSeq(s, 1, Len(s) - Len(suffix)) ELSE s
Contains(s, sub) ==
    \E i \in 1..(Len(s) - Len(sub) + 1) : SubSeq(s, i, i + Len(sub) - 1) = sub

\* The first place of s where sub starts, 0 when there is none.
Index(s, sub) ==
    LET at == {i \in 1..(Len(s) - Len(sub) + 1) : SubSeq(s, i, i + Len(sub) - 1) = sub}
    IN  IF at = {} THEN 0 ELSE CHOOSE i \in at : \A j \in at : i <= j

TrimSpace(s) ==
    LET keep == {i \in 1..Len(s) : ~IsSpace(s[i])}
    IN  IF keep = {} THEN <<>>
        ELSE SubSeq(s, CHOOSE i \in keep : \A j \in keep : i <= j,
                       CHOOSE i \in keep : \A j \in keep : i >= j)

RECURSIVE Split(_, _)
\* strings.Split(s, sep) for a separator that is not empty.
Split(s, sep) ==
    LET i == Index(s, sep)
    IN  IF i = 0 THEN <<s>>
        ELSE <<SubSeq(s, 1, i - 1)>> \o Split(SubSeq(s, i + Len(sep), Len(s)), sep)

\* strings.SplitN(s, sep, 2).
SplitN2(s, sep) ==
    LET i == Index(s, sep)
    IN  IF i = 0 THEN <<s>>
        ELSE <<SubSeq(s, 1, i - 1), SubSeq(s, i + Len(sep), Len(s))>>

RECURSIVE Join(_, _)
Join(ss, sep) ==
    IF Len(ss) = 0 THEN <<>>
    ELSE IF Len(ss) = 1 THEN ss[1]
    ELSE ss[1] \o sep \o Join(Tail(ss), sep)

\* A slice as the set of its <<place, element>> pairs, and back.
Slice(seq) == {<<i, seq[i]>> : i \in 1..Len(seq)}
Elements(slice) ==
    [i \in 1..Cardinality(slice) |-> (CHOOSE e \in slice : e[1] = i)[2]]

-----------------------------------------------------------------------------
\* The content store

VARIABLES
    nodes,      \* the permanodes, in the order of their allocation
    pc,         \* pc[p]: the step operation p is at
    frame,      \* frame[p]: the arguments, locals and result of operation p
    nops,       \* the operations started so far
    faults,     \* whether store calls can fail in this run
    overlap,    \* whether operations can overlap in this run
    lastWrite,  \* the last put or delete that returned
    lastPut,    \* per (bag, title): what the last successful put or delete left
    now         \* the time, in ticks of the clock

vars == <<nodes, pc, frame, nops, faults, overlap, lastWrite, lastPut, now>>

ZeroRef == <<>>
FileRef(bytes) == <<"file", bytes>>
BlobRef(obj) == <<"blob", obj>>

\* A permanode without claims.
NewNode ==
    [title |-> "", bag |-> "", meta |-> ZeroRef, content |-> ZeroRef,
     tags |-> {}, vis |-> "", deleted |-> FALSE, mod |-> 0]

\* The permanode the init command makes for the TiddlyWiki index file: a
\* node with a title and content that is no tiddler.
IndexNode ==
    [NewNode EXCEPT !.title = tiddlyWikiIndex, !.content = FileRef(<<>>)]

\* The number of values a node has for an attribute.
NumValues(n, attr) ==
    CASE attr = "title" -> IF n.title = "" THEN 0 ELSE 1
      [] attr = "tiddlerBag" -> IF n.bag = "" THEN 0 ELSE 1
      [] attr = "tiddlerMeta" -> IF n.meta = ZeroRef THEN 0 ELSE 1
      [] attr = "camliContent" -> IF n.content = ZeroRef THEN 0 ELSE 1
      [] attr = "tag" -> Cardinality(n.tags)
      [] OTHER -> 0

\* Claims, as schema.NewSetAttributeClaim and its siblings build them.
NewSetAttributeClaim(ref, attr, value) ==
    [op |-> "set", node |-> ref, attr |-> attr, value |-> value]
NewAddAttributeClaim(ref, attr, value) ==
    [op |-> "add", node |-> ref, attr |-> attr, value |-> value]
NewDelAttributeClaim(ref, attr, value) ==
    [op |-> "del", node |-> ref, attr |-> attr, value |-> value]
NewDeleteClaim(ref) ==
    [op |-> "delete", node |-> ref, attr |-> "", value |-> ""]
NewPermanode(ref) ==
    [op |-> "permanode", node |-> ref, attr |-> "", value |-> ""]

\* A node after a claim on it.
Claimed(n, c) ==
    CASE c.op = "delete" -> [n EXCEPT !.deleted = TRUE]
      [] c.op = "set" /\ c.attr = "title" -> [n EXCEPT !.title = c.value]
      [] c.op = "set" /\ c.attr = "tiddlerBag" -> [n EXCEPT !.bag = c.value]
      [] c.op = "set" /\ c.attr = "camliDefVis" -> [n EXCEPT !.vis = c.value]
      [] c.op = "set" /\ c.attr = "camliContent" -> [n EXCEPT !.content = c.value]
      [] c.op = "set" /\ c.attr = "tiddlerMeta" -> [n EXCEPT !.meta = c.value]
      [] c.op = "set" /\ c.attr = "tag" -> [n EXCEPT !.tags = {c.value}]
      [] c.op = "add" /\ c.attr = "tag" -> [n EXCEPT !.tags = @ \cup {c.value}]
      [] c.op = "del" /\ c.attr = "tag" -> [n EXCEPT !.tags = @ \ {c.value}]
      [] OTHER -> n

\* Client.UploadAndSignBlob of a claim: the store after the claim commits.
\* The claim is dated when it is signed, and the date of its last claim is
\* the modification time of a permanode.
UploadAndSignBlob(ns, c) ==
    IF c.node \in 1..Len(ns)
    THEN [ns EXCEPT ![c.node] = [Claimed(ns[c.node], c) EXCEPT !.mod = now]]
    ELSE ns

\* Search constraints, as the search package's Constraint values.
AttrIs(attr, value) == [kind |-> "value", attr |-> attr, value |-> value]
AttrMin1(attr) == [kind |-> "num", attr |-> attr, value |-> ""]
AttrHasPrefix(attr, prefix) == [kind |-> "prefix", attr |-> attr, value |-> prefix]
And(a, b) == [kind |-> "and", a |-> a, b |-> b]

RECURSIVE Matches(_, _)
Matches(c, n) ==
    CASE c.kind = "and" -> Matches(c.a, n) /\ Matches(c.b, n)
      [] c.kind = "num" -> NumValues(n, c.attr) >= 1
      [] c.kind = "value" ->
            CASE c.attr = "title" -> n.title # "" /\ n.title = c.value
              [] c.attr = "tiddlerBag" -> n.bag # "" /\ n.bag = c.value
              [] OTHER -> FALSE
      [] c.kind = "prefix" ->
            c.attr = "title" /\ n.title # "" /\ HasPrefix(n.title, c.value)

\* Client.Query: the permanodes that match; a tombstoned permanode matches
\* no query.
Query(ns, c) == {i \in 1..Len(ns) : ~ns[i].deleted /\ Matches(c, ns[i])}

searchTiddlers(ns, c, includeMissingMeta) ==
    IF ~includeMissingMeta
    THEN Query(ns, And(AttrMin1("tiddlerMeta"), c))
    ELSE Query(ns, c)

\* Client.Describe of one ref: <<>> when the store has no such permanode,
\* else the described node.
Describe(ns, ref) == IF ref \in 1..Len(ns) THEN <<ns[ref]>> ELSE <<>>

-----------------------------------------------------------------------------
\* TiddlerRef

TiddlerRef(ref, title, bag, recipe) ==
    [Ref |-> ref, TextRef |-> ZeroRef, MetaRef |-> ZeroRef, Title |-> title,
     Bag |-> bag, Recipe |-> recipe, Tags |-> {}, Revision |-> 0]

constructTiddlerRef(ref, d) ==
    IF d = <<>>
    THEN TiddlerRef(ref, "", "", "")
    ELSE [Ref |-> ref, TextRef |-> d[1].content, MetaRef |-> d[1].meta,
          Title |-> d[1].title, Bag |-> d[1].bag, Recipe |-> "",
          Tags |-> d[1].tags, Revision |-> d[1].mod]

\* The constraint getTiddlerPermanode builds for a ref that passed its checks.
RefConstraint(r) ==
    And(AttrIs("title", r.Title),
        IF r.Bag # "" THEN AttrIs("tiddlerBag", r.Bag) ELSE AttrMin1("tiddlerBag"))

\* getTiddlerPermanode without its checks of the ref.
RefErrorNone(r) == ""

\* The checks of getTiddlerPermanode on a ref without a valid Ref: the error,
\* or "" when the ref passes.
RefError(r) ==
    IF r.Title = "" THEN "InvalidReference"
    ELSE IF r.Bag = "" /\ r.Recipe = "" THEN "InvalidReference"
    ELSE IF r.Bag = "" /\ r.Recipe \notin {"all", "system"} THEN "UnsupportedRecipe"
    ELSE ""

-----------------------------------------------------------------------------
\* updateTags

RECURSIVE Orders(_)
\* Every order in which a range loop over a Go map can visit the set.
Orders(S) ==
    IF S = {} THEN {<<>>}
    ELSE UNION {{<<x>> \o o : o \in Orders(S \ {x})} : x \in S}

TagOp(op, tag) == [op |-> op, tag |-> tag]

AddOps(order) == [i \in 1..Len(order) |-> TagOp("add", order[i])]
DelOps(order) == [i \in 1..Len(order) |-> TagOp("del", order[i])]

\* updateTags without its loop over existing.Diff(wanted).
updateTagsNoDelete(existing, wanted) ==
    IF wanted = existing THEN {<<>>}
    ELSE IF Cardinality(wanted) = 1
         THEN {<<TagOp("set", CHOOSE x \in wanted : TRUE)>>}
    ELSE {AddOps(a) : a \in Orders(wanted \ existing)}

\* updateTags without its branch for one wanted tag.
updateTagsDiffOnly(existing, wanted) ==
    IF wanted = existing THEN {<<>>}
    ELSE {AddOps(a) \o DelOps(d) :
            a \in Orders(wanted \ existing), d \in Orders(existing \ wanted)}

\* The sequences of tag claims updateTags can upload when no upload fails.
updateTags(existing, wanted) ==
    IF wanted = existing THEN {<<>>}
    ELSE IF Cardinality(wanted) = 1
         THEN {<<TagOp("set", CHOOSE x \in wanted : TRUE)>>}
    ELSE {AddOps(a) \o DelOps(d) :
            a \in Orders(wanted \ existing), d \in Orders(existing \ wanted)}

TagClaim(ref, o) ==
    CASE o.op = "set" -> NewSetAttributeClaim(ref, "tag", o.tag)
      [] o.op = "add" -> NewAddAttributeClaim(ref, "tag", o.tag)
      [] o.op = "del" -> NewDelAttributeClaim(ref, "tag", o.tag)

-----------------------------------------------------------------------------
\* Inputs of the operations

TagSets == {{}, {"a"}, {"a", "b"}, {"b", "c"}}
Bodies == {<<"text/plain", TextHi>>, <<"text/plain", TextB64>>,
           <<"image/png", TextB64>>}

PutInputs ==
    {Tiddler("Foo", "", "x", b[1], b[2], tags) : b \in Bodies, tags \in TagSets}
        \cup {Tiddler("Foo", "", "x", "image/png", TextB64Wrapped, {}),
              Tiddler("Foo", "", "x", "image/png", TextBad, {}),
              Tiddler("Foo", "work", "", "text/plain", TextHi, {"a"}),
              Tiddler("", "", "x", "text/plain", TextHi, {}),
              Tiddler("$:/Bar", "default", "all", "text/plain", TextHi, {})}

TitleRefs ==
    {TiddlerRef(0, "Foo", "default", ""), TiddlerRef(0, "Foo", "work", ""),
     TiddlerRef(0, "Foo", "", "all"), TiddlerRef(0, "Foo", "", "x"),
     TiddlerRef(0, "Foo", "", ""), TiddlerRef(0, "", "default", ""),
     TiddlerRef(0, "$:/Bar", "", "system")}

\* The -by_ref flag of the cat, edit and delete commands: a permanode of the
\* store that is not tombstoned.
NodeRefs == {TiddlerRef(i, "", "", "") : i \in {j \in 1..Len(nodes) : ~nodes[j].deleted}}

\* The refs the HTTP handlers construct an ETag for: title and bag, title
\* and recipe.
ETagRefs ==
    {TiddlerRef(0, "Foo", "default", ""), TiddlerRef(0, "Foo", "", "all"),
     TiddlerRef(0, "$:/Bar", "", "system")}

BagNames == {"default", "work"}
RecipeNames == {"all", "system", "bogus"}

Keys == BagNames \X Titles

-----------------------------------------------------------------------------
\* Frames

BlankTiddler == Tiddler("", "", "", "", <<>>, {})

NoWrite == [kind |-> "", arg |-> BlankTiddler, ok |-> FALSE]
\* What is known of a (bag, title): its last successful write, the last ETag
\* constructed for it, and whether since that ETag a write has returned and
\* whether a put that uploaded a body or a metadata claim has succeeded.
NoPut == [state |-> "none", Type |-> "", Text |-> <<>>, Tags |-> {},
          etag |-> <<>>, written |-> FALSE, changed |-> FALSE]

BlankFrame ==
    [kind |-> "", arg |-> BlankTiddler, t |-> BlankTiddler,
     ref |-> TiddlerRef(0, "", "", ""), filter |-> FALSE,
     textBlobRef |-> ZeroRef, metaBlobRef |-> ZeroRef, pending |-> <<>>,
     found |-> <<>>, out |-> <<>>, err |-> "", log |-> <<>>, fault |-> "",
     calls |-> 0, status |-> 0, data |-> <<>>, pre |-> <<>>, prior |-> NoWrite, priorPut |-> <<>>]

\* The frame of an operation that starts now.
NewFrame(kind, arg) ==
    [BlankFrame EXCEPT !.kind = kind, !.arg = arg, !.pre = nodes,
                       !.prior = lastWrite, !.priorPut = lastPut]

\* Whether a store call made now can fail.
Outcomes == IF faults THEN {TRUE, FALSE} ELSE {TRUE}

Budget == IF overlap THEN MaxOpsConc ELSE IF faults THEN MaxOpsFault ELSE MaxOps

\* An operation can start on a process that runs none; without overlap all
\* operations run on one process, one after the other.
CanStart(p) ==
    /\ pc[p] \in {"idle", "done"}
    /\ nops < Budget
    /\ overlap \/ p = "p1"

\* The key a finished operation is recorded under.
WriteKey(f) == IF f.kind = "put" THEN <<f.t.Bag, f.t.Title>> ELSE <<f.ref.Bag, f.ref.Title>>

IsHandleClaim(c) == c.attr \in {"camliContent", "tiddlerMeta"}

\* What is known of the key of operation f once it has returned.
Recorded(f, was) ==
    CASE f.kind = "etag" /\ f.err = "" ->
            [was EXCEPT !.etag = f.out[1], !.written = FALSE, !.changed = FALSE]
      [] f.kind = "put" /\ f.err = "" ->
            [was EXCEPT !.state = "put", !.Type = f.arg.Type, !.Text = f.arg.Text,
                        !.Tags = f.arg.Tags, !.written = TRUE,
                        !.changed = @ \/ SelectSeq(f.log, IsHandleClaim) # <<>>]
      [] f.kind = "delete" /\ f.err = "" ->
            [was EXCEPT !.state = "deleted", !.Type = "", !.Text = <<>>, !.Tags = {},
                        !.written = TRUE]
      [] f.kind \in {"put", "delete"} -> [was EXCEPT !.written = TRUE]
      [] OTHER -> was

\* Operation p moves on to the step `label` with frame f.
Goto(p, label, f) ==
    /\ pc' = [pc EXCEPT ![p] = label]
    /\ frame' = [frame EXCEPT ![p] = f]
    /\ UNCHANGED <<lastWrite, lastPut>>

StatusOK == 200
StatusInternalServerError == 500

\* The status ContextHandler.ServeHTTP answers with for the error of its
\* handler: the code of an *httpError, which no handler returns, and else
\* StatusInternalServerError.
ServeHTTP(err) == IF err = "" THEN StatusOK ELSE StatusInternalServerError

\* Operation p returns with frame f (f.err = "" when it returns no error).
Return(p, f) ==
    /\ pc' = [pc EXCEPT ![p] = "done"]
    /\ frame' = [frame EXCEPT ![p] = [f EXCEPT !.status = ServeHTTP(f.err)]]
    /\ lastWrite' = IF f.kind \in {"put", "delete"}
                    THEN [kind |-> f.kind, arg |-> f.arg, ok |-> f.err = ""]
                    ELSE lastWrite
    /\ lastPut' = IF WriteKey(f) \in Keys
                  THEN [lastPut EXCEPT ![WriteKey(f)] = Recorded(f, @)]
                  ELSE lastPut

\* A store call of the operation failed at the step it is at.
Faulted(p, f) == IF f.fault = "" THEN [f EXCEPT !.fault = pc[p]] ELSE f

\* The operation has made one more call into the store.
Called(f) == [f EXCEPT !.calls = @ + 1]

Fail(p, f, err) ==
    Return(p, [(IF err = "StoreError" THEN Called(Faulted(p, f)) ELSE f) EXCEPT !.err = err])

Logged(f, c) == [f EXCEPT !.log = Append(@, c)]

-----------------------------------------------------------------------------
\* PutTiddler, up to the resolution of its node

\* PutTiddler without its default for the bag.
PutBagKeep(bag) == bag

\* t.Bag after the default of PutTiddler.
PutBag(bag) == IF bag = "" THEN "default" ELSE bag

\* The body bytes PutTiddler uploads: [ok, bytes].
Decoded(t) ==
    IF textEncoding(t.Type) = "base64" THEN DecodeString(t.Text)
    ELSE [ok |-> TRUE, bytes |-> t.Text]

StartPut(p) ==
    /\ CanStart(p)
    /\ \E t \in PutInputs :
          LET f == [NewFrame("put", t) EXCEPT !.t = [t EXCEPT !.Bag = PutBag(t.Bag)]]
          IN  IF Decoded(f.t).ok
              THEN Goto(p, "upload_text", f)
              ELSE Fail(p, f, "MalformedInput")
    /\ nops' = nops + 1
    /\ UNCHANGED <<nodes, faults, overlap, now>>

UploadText(p) ==
    /\ pc[p] = "upload_text"
    /\ LET f == frame[p]
       IN  \E ok \in Outcomes :
              IF ok
              THEN Goto(p, "upload_meta",
                        Called([f EXCEPT !.textBlobRef = FileRef(Decoded(f.t).bytes)]))
              ELSE Fail(p, f, "StoreError")
    /\ UNCHANGED <<nodes, nops, faults, overlap, now>>

\* PutTiddler going on to resolve its node without the metadata uploaded.
UploadMetaSkipped(p) ==
    /\ pc[p] = "upload_meta"
    /\ LET f == frame[p]
       IN  Goto(p, "resolve",
                [f EXCEPT !.ref = TiddlerRef(f.t.Ref, f.t.Title, f.t.Bag, f.t.Recipe)])
    /\ UNCHANGED <<nodes, nops, faults, overlap, now>>

UploadMeta(p) ==
    /\ pc[p] = "upload_meta"
    /\ LET f == frame[p]
       IN  \E ok \in Outcomes :
              IF ok
              THEN Goto(p, "resolve",
                        Called([f EXCEPT !.metaBlobRef = BlobRef(MetaObject(f.t)),
                                         !.ref = TiddlerRef(f.t.Ref, f.t.Title, f.t.Bag,
                                                            f.t.Recipe)]))
              ELSE Fail(p, f, "StoreError")
    /\ UNCHANGED <<nodes, nops, faults, overlap, now>>

-----------------------------------------------------------------------------
\* ResolveRef and getTiddlerPermanode

\* Whether ResolveRef returns at once.
IsResolved(r) == r.Ref # 0 /\ r.TextRef # ZeroRef /\ r.MetaRef # ZeroRef

\* getTiddlerPermanode never taking the query's result.
QueryHitNever(ok, res) == FALSE

\* Whether getTiddlerPermanode takes the first blob of the query's result.
QueryHit(ok, res) == ok /\ res # {}

\* Every caller asking for a missing permanode to be created.
CreateMissingAlways(kind) == TRUE

\* The createMissing argument of the operation's call of resolveRef.
CreateMissing(kind) == kind = "put"

\* r.Bag after the default of getTiddlerPermanode, for the permanode it makes.
NewNodeBag(bag) == IF bag = "" THEN "default" ELSE bag

HideNode(title) ==
    \/ HideTiddlers = "system" /\ HasPrefix(title, systemTiddlerPrefix)
    \/ HideTiddlers = "all"

\* url.QueryEscape over the titles of the model.
QueryEscape(s) == IF s = "$:/Bar" THEN "%24%3A%2FBar" ELSE s

\* Time.Unix of a time in ticks.
Unix(t) == t \div TicksPerSecond

\* The ETag constructETag formats from a resolved ref: bag, escaped title,
\* seconds of the revision, permanode.
ETag(r) ==
    [bag |-> r.Bag, title |-> QueryEscape(r.Title), rev |-> Unix(r.Revision),
     ref |-> r.Ref]

\* The tiddler GetTiddler starts from.
TiddlerOf(r) ==
    [Tiddler(r.Title, r.Bag, r.Recipe, "", <<>>, r.Tags)
        EXCEPT !.Ref = r.Ref, !.Revision = r.Revision]

\* The operation goes on with its ref resolved to r.
Resolved(p, f, r) ==
    LET g == [f EXCEPT !.ref = r]
    IN  CASE f.kind = "put" -> Goto(p, "content", g)
          [] f.kind = "delete" -> Goto(p, "tombstone", g)
          [] f.kind = "etag" -> Return(p, [g EXCEPT !.out = <<ETag(r)>>])
          [] OTHER ->
                IF r.MetaRef = ZeroRef \/ r.Title = ""
                THEN Fail(p, g, "NotFound")
                ELSE Goto(p, "fetch_meta", [g EXCEPT !.t = TiddlerOf(r)])

Resolve(p) ==
    /\ pc[p] = "resolve"
    /\ LET f == frame[p]
           r == f.ref
           createMissing == CreateMissing(f.kind)
       IN  IF IsResolved(r) THEN Resolved(p, f, r)
           ELSE IF r.Ref # 0
           THEN \E ok \in Outcomes :
                   IF ok
                   THEN Resolved(p, Called(f),
                                 constructTiddlerRef(r.Ref, Describe(nodes, r.Ref)))
                   ELSE Fail(p, f, "StoreError")
           ELSE IF RefError(r) # "" THEN Fail(p, f, RefError(r))
           ELSE \E ok \in Outcomes :
                   LET res == IF ok THEN searchTiddlers(nodes, RefConstraint(r), TRUE)
                              ELSE {}
                       g == Called(IF ok THEN f ELSE Faulted(p, f))
                   IN  IF QueryHit(ok, res)
                       THEN \E b \in res :
                               Resolved(p, g, constructTiddlerRef(b, Describe(nodes, b)))
                       ELSE IF ~createMissing THEN Fail(p, g, "NotFound")
                       ELSE Goto(p, "permanode", [g EXCEPT !.ref.Bag = NewNodeBag(r.Bag)])
    /\ UNCHANGED <<nodes, nops, faults, overlap, now>>

UploadNewPermanode(p) ==
    /\ pc[p] = "permanode"
    /\ LET f == frame[p]
           ref == Len(nodes) + 1
       IN  \E ok \in Outcomes :
              IF ok
              THEN /\ nodes' = Append(nodes, NewNode)
                   /\ Goto(p, "title",
                           Called(Logged([f EXCEPT !.ref.Ref = ref], NewPermanode(ref))))
              ELSE /\ Fail(p, f, "StoreError")
                   /\ UNCHANGED nodes
    /\ UNCHANGED <<nops, faults, overlap, now>>

\* One claim of the operation: when the upload succeeds the claim commits and
\* the operation goes on as `next` says, else it returns the store's error.
Claim(p, f, c, next(_)) ==
    \E ok \in Outcomes :
        IF ok
        THEN /\ nodes' = UploadAndSignBlob(nodes, c)
             /\ next(Called(Logged(f, c)))
        ELSE /\ Fail(p, f, "StoreError")
             /\ UNCHANGED nodes

ClaimTitle(p) ==
    /\ pc[p] = "title"
    /\ LET f == frame[p]
           next(g) == Goto(p, "bag", g)
       IN  Claim(p, f, NewSetAttributeClaim(f.ref.Ref, "title", f.ref.Title), next)
    /\ UNCHANGED <<nops, faults, overlap, now>>

ClaimBag(p) ==
    /\ pc[p] = "bag"
    /\ LET f == frame[p]
           next(g) == IF HideNode(f.ref.Title)
                      THEN Goto(p, "vis", g)
                      ELSE Resolved(p, g, constructTiddlerRef(f.ref.Ref, <<>>))
       IN  Claim(p, f, NewSetAttributeClaim(f.ref.Ref, "tiddlerBag", f.ref.Bag), next)
    /\ UNCHANGED <<nops, faults, overlap, now>>

ClaimVis(p) ==
    /\ pc[p] = "vis"
    /\ LET f == frame[p]
           next(g) == Resolved(p, g, constructTiddlerRef(f.ref.Ref, <<>>))
       IN  Claim(p, f, NewSetAttributeClaim(f.ref.Ref, "camliDefVis", "hide"), next)
    /\ UNCHANGED <<nops, faults, overlap, now>>

-----------------------------------------------------------------------------
\* PutTiddler, on its resolved node

\* PutTiddler uploading its handle claims whatever the node holds.
HandleChangedAlways(uploaded, current) == TRUE

\* PutTiddler with the comparison of the handles inverted.
HandleChangedInverted(uploaded, current) == uploaded = current

\* Whether PutTiddler uploads a claim for a handle: the uploaded blob's ref
\* differs from the one the node was resolved with.
HandleChanged(uploaded, current) == uploaded # current

\* PutTiddler going on to its tiddlerMeta claim without a camliContent claim.
ClaimContentSkipped(p) ==
    /\ pc[p] = "content"
    /\ Goto(p, "meta", frame[p])
    /\ UNCHANGED <<nodes, nops, faults, overlap, now>>

ClaimContent(p) ==
    /\ pc[p] = "content"
    /\ LET f == frame[p]
           next(g) == Goto(p, "meta", g)
       IN  IF HandleChanged(f.textBlobRef, f.ref.TextRef)
           THEN Claim(p, f, NewSetAttributeClaim(f.ref.Ref, "camliContent", f.textBlobRef),
                      next)
           ELSE next(f) /\ UNCHANGED nodes
    /\ UNCHANGED <<nops, faults, overlap, now>>

ClaimMeta(p) ==
    /\ pc[p] = "meta"
    /\ LET f == frame[p]
           next(g) == Goto(p, "update_tags", g)
       IN  IF HandleChanged(f.metaBlobRef, f.ref.MetaRef)
           THEN Claim(p, f, NewSetAttributeClaim(f.ref.Ref, "tiddlerMeta", f.metaBlobRef),
                      next)
           ELSE next(f) /\ UNCHANGED nodes
    /\ UNCHANGED <<nops, faults, overlap, now>>

\* The call of updateTags: the claims it is going to upload, in the order
\* its loops visit the two differences.
UpdateTags(p) ==
    /\ pc[p] = "update_tags"
    /\ LET f == frame[p]
       IN  \E ops \in updateTags(f.ref.Tags, f.t.Tags) :
              IF ops = <<>>
              THEN Return(p, f)
              ELSE Goto(p, "tags", [f EXCEPT !.pending = ops])
    /\ UNCHANGED <<nodes, nops, faults, overlap, now>>

ClaimTag(p) ==
    /\ pc[p] = "tags"
    /\ LET f == frame[p]
           rest == Tail(f.pending)
           next(g) == IF rest = <<>>
                      THEN Return(p, [g EXCEPT !.pending = rest])
                      ELSE Goto(p, "tags", [g EXCEPT !.pending = rest])
       IN  Claim(p, f, TagClaim(f.ref.Ref, Head(f.pending)), next)
    /\ UNCHANGED <<nops, faults, overlap, now>>

-----------------------------------------------------------------------------
\* GetTiddler

StartGet(p) ==
    /\ CanStart(p)
    /\ \E r \in TitleRefs \cup NodeRefs, filter \in BOOLEAN :
          Goto(p, "resolve", [NewFrame("get", r) EXCEPT !.ref = r, !.filter = filter])
    /\ nops' = nops + 1
    /\ UNCHANGED <<nodes, faults, overlap, now>>

\* GetTiddler returns tiddler t: to its caller, or to the loop of listRefs,
\* which goes on with the next blob of the result.
Got(p, f, t) ==
    LET g == [f EXCEPT !.out = Append(@, t)]
    IN  IF f.kind = "get" \/ f.found = <<>>
        THEN Return(p, g)
        ELSE Goto(p, "resolve", [g EXCEPT !.ref = Head(f.found), !.found = Tail(f.found)])

FetchMeta(p) ==
    /\ pc[p] = "fetch_meta"
    /\ LET f == frame[p]
           t == MergeFrom(f.t, f.ref.MetaRef[2])
       IN  \E ok \in Outcomes :
              IF ~ok THEN Fail(p, f, "StoreError")
              ELSE IF f.filter THEN Goto(p, "fetch_text", Called([f EXCEPT !.t = t]))
              ELSE Got(p, Called(f), t)
    /\ UNCHANGED <<nodes, nops, faults, overlap, now>>

\* The text GetTiddler returns for the bytes of the body.
Encoded(type, data) ==
    IF textEncoding(type) = "base64" THEN EncodeToString(data) ELSE data

FetchText(p) ==
    /\ pc[p] = "fetch_text"
    /\ LET f == frame[p]
       IN  \E ok \in Outcomes :
              IF ~ok \/ f.ref.TextRef = ZeroRef THEN Fail(p, f, "StoreError")
              ELSE Got(p, Called(f),
                       [f.t EXCEPT !.Text = Encoded(f.t.Type, f.ref.TextRef[2])])
    /\ UNCHANGED <<nodes, nops, faults, overlap, now>>

-----------------------------------------------------------------------------
\* constructETag

StartETag(p) ==
    /\ CanStart(p)
    /\ \E r \in ETagRefs :
          Goto(p, "resolve", [NewFrame("etag", r) EXCEPT !.ref = r])
    /\ nops' = nops + 1
    /\ UNCHANGED <<nodes, faults, overlap, now>>

-----------------------------------------------------------------------------
\* DeleteTiddler

StartDelete(p) ==
    /\ CanStart(p)
    /\ \E r \in TitleRefs \cup NodeRefs :
          Goto(p, "resolve", [NewFrame("delete", r) EXCEPT !.ref = r])
    /\ nops' = nops + 1
    /\ UNCHANGED <<nodes, faults, overlap, now>>

ClaimDelete(p) ==
    /\ pc[p] = "tombstone"
    /\ LET f == frame[p]
           next(g) == Return(p, g)
       IN  Claim(p, f, NewDeleteClaim(f.ref.Ref), next)
    /\ UNCHANGED <<nops, faults, overlap, now>>

-----------------------------------------------------------------------------
\* ListBag, ListRecipe and listRefs

\* The constraint of a list operation, before searchTiddlers adds the
\* metadata constraint.
ListConstraint(kind, name) ==
    IF kind = "listBag" THEN AttrIs("tiddlerBag", name)
    ELSE IF name = "all" THEN AttrMin1("tiddlerBag")
    ELSE And(AttrMin1("tiddlerBag"), AttrHasPrefix("title", systemTiddlerPrefix))

StartListBag(p) ==
    /\ CanStart(p)
    /\ \E bag \in BagNames, filter \in BOOLEAN :
          Goto(p, "list_query", [NewFrame("listBag", bag) EXCEPT !.filter = filter])
    /\ nops' = nops + 1
    /\ UNCHANGED <<nodes, faults, overlap, now>>

StartListRecipe(p) ==
    /\ CanStart(p)
    /\ \E recipe \in RecipeNames, filter \in BOOLEAN :
          LET f == [NewFrame("listRecipe", recipe) EXCEPT !.filter = filter]
          IN  IF recipe \in {"all", "system"}
              THEN Goto(p, "list_query", f)
              ELSE Fail(p, f, "UnsupportedRecipe")
    /\ nops' = nops + 1
    /\ UNCHANGED <<nodes, faults, overlap, now>>

\* The query of a list operation; listRefs then gets each blob of the
\* result, in the result's order, from the description the query returned.
ListQuery(p) ==
    /\ pc[p] = "list_query"
    /\ LET f == frame[p]
           res == searchTiddlers(nodes, ListConstraint(f.kind, f.arg), FALSE)
       IN  \E ok \in Outcomes :
              IF ~ok THEN Fail(p, f, "StoreError")
              ELSE IF res = {} THEN Return(p, Called(f))
              ELSE \E order \in Orders(res) :
                      LET refs == [i \in 1..Len(order) |->
                                      constructTiddlerRef(order[i], Describe(nodes, order[i]))]
                      IN  Goto(p, "resolve",
                               Called([f EXCEPT !.ref = Head(refs), !.found = Tail(refs)]))
    /\ UNCHANGED <<nodes, nops, faults, overlap, now>>

-----------------------------------------------------------------------------
\* Specifications

InitStore ==
    /\ nodes = <<IndexNode>>
    /\ pc = [p \in Procs |-> "idle"]
    /\ frame = [p \in Procs |-> BlankFrame]
    /\ nops = 0
    /\ lastWrite = NoWrite
    /\ lastPut = [k \in Keys |-> NoPut]
    /\ now = 0

\* Operations one after the other, on a store whose calls succeed.
Init == InitStore /\ faults = FALSE /\ overlap = FALSE

\* Operations one after the other, on a store whose calls can fail.
InitFault == InitStore /\ faults = TRUE /\ overlap = FALSE

\* Overlapping operations, on a store whose calls succeed.
InitConc == InitStore /\ faults = FALSE /\ overlap = TRUE

Next ==
    \E p \in Procs :
        \/ StartPut(p)
        \/ UploadText(p)
        \/ UploadMeta(p)
        \/ Resolve(p)
        \/ UploadNewPermanode(p)
        \/ ClaimTitle(p)
        \/ ClaimBag(p)
        \/ ClaimVis(p)
        \/ ClaimContent(p)
        \/ ClaimMeta(p)
        \/ UpdateTags(p)
        \/ ClaimTag(p)
        \/ StartGet(p)
        \/ FetchMeta(p)
        \/ FetchText(p)
        \/ StartDelete(p)
        \/ ClaimDelete(p)
        \/ StartListBag(p)
        \/ StartListRecipe(p)
        \/ ListQuery(p)
        \/ StartETag(p)

Spec == Init /\ [][Next]_vars
SpecFault == InitFault /\ [][Next]_vars
SpecConc == InitConc /\ [][Next]_vars

\* updateTags alone: a put that found body and metadata unchanged calls
\* updateTags with any tag set on the node and any tag set wanted.
AllTags == {"a", "b", "c"}

TaggedNode(tags) ==
    [NewNode EXCEPT !.title = "Foo", !.bag = "default",
                    !.meta = BlobRef(MetaObject(Tiddler("Foo", "default", "", "", TextHi, {}))),
                    !.content = FileRef(TextHi), !.tags = tags]

TagsFrame(existing, wanted) ==
    LET t == Tiddler("Foo", "default", "", "", TextHi, wanted)
    IN  [BlankFrame EXCEPT !.kind = "put", !.arg = t, !.t = t,
                           !.ref = constructTiddlerRef(2, <<TaggedNode(existing)>>),
                           !.textBlobRef = FileRef(TextHi),
                           !.metaBlobRef = BlobRef(MetaObject(t)),
                           !.pre = <<IndexNode, TaggedNode(existing)>>]

InitTags ==
    \E existing \in SUBSET AllTags, wanted \in SUBSET AllTags :
        /\ nodes = <<IndexNode, TaggedNode(existing)>>
        /\ pc = [p \in Procs |-> IF p = "p1" THEN "update_tags" ELSE "idle"]
        /\ frame = [p \in Procs |-> IF p = "p1" THEN TagsFrame(existing, wanted)
                                    ELSE BlankFrame]
        /\ nops = 1
        /\ lastWrite = NoWrite
        /\ lastPut = [k \in Keys |-> NoPut]
        /\ faults = FALSE
        /\ overlap = FALSE
        /\ now = 0

NextTags == UpdateTags("p1") \/ ClaimTag("p1")

SpecTags == InitTags /\ [][NextTags]_vars

\* The JSON codec alone: a tiddler is marshalled and the bytes unmarshalled
\* into a zero Tiddler, as the PUT handler and the put command do; or bytes
\* that come from elsewhere are unmarshalled.  JSON bytes are the object they
\* denote, <<"json", obj>>, or bytes that are no JSON object.
JSONTiddlers ==
    {[Tiddler("Foo", bag, "", type, text, tags)
         EXCEPT !.Ref = ref, !.Revision = rev, !.Created = created, !.Fields = fields] :
        bag \in {"", "default"}, type \in {"", "text/plain"}, text \in {<<>>, TextHi},
        tags \in {{}, {"a", "b"}}, ref \in {0, 2}, rev \in {0, 1, 2},
        created \in {"", "20200101"}, fields \in {<<>>, "color" :> "red"}}

JSONInputs ==
    {<<"text", "{">>}
        \cup {<<"json", ("title" :> "Foo") @@ ("revision" :> rev)>> :
                rev \in {"0001-01-01T00:00:01Z", "0001-01-01T01:00:01+01:00",
                         "0001-01-01T00:00:00.500Z", "yesterday", ""}}
        \cup {<<"json", "title" :> "Foo">>}

MarshalJSON(p) ==
    /\ pc[p] = "marshal"
    /\ Goto(p, "unmarshal", [frame[p] EXCEPT !.data = <<"json", ToJSONObject(frame[p].arg)>>])
    /\ UNCHANGED <<nodes, nops, faults, overlap, now>>

UnmarshalJSON(p) ==
    /\ pc[p] = "unmarshal"
    /\ LET f == frame[p]
       IN  IF f.data[1] # "json" THEN Fail(p, f, "MalformedInput")
           ELSE Return(p, [f EXCEPT !.out = <<MergeFrom(BlankTiddler, f.data[2])>>])
    /\ UNCHANGED <<nodes, nops, faults, overlap, now>>

InitJSON ==
    /\ nodes = <<IndexNode>>
    /\ pc \in [Procs -> {"idle", "marshal", "unmarshal"}]
    /\ pc["p2"] = "idle"
    /\ pc["p1"] # "idle"
    /\ frame \in [Procs -> {BlankFrame}
                              \cup {[BlankFrame EXCEPT !.kind = "json", !.arg = t] :
                                        t \in JSONTiddlers}
                              \cup {[BlankFrame EXCEPT !.kind = "decode", !.data = d] :
                                        d \in JSONInputs}]
    /\ frame["p2"] = BlankFrame
    /\ pc["p1"] = "marshal" <=> frame["p1"].kind = "json"
    /\ pc["p1"] = "unmarshal" <=> frame["p1"].kind = "decode"
    /\ nops = 1
    /\ lastWrite = NoWrite
    /\ lastPut = [k \in Keys |-> NoPut]
    /\ faults = FALSE
    /\ overlap = FALSE
    /\ now = 0

NextJSON == MarshalJSON("p1") \/ UnmarshalJSON("p1")

SpecJSON == InitJSON /\ [][NextJSON]_vars

\* The text form alone: a tiddler is marshalled to its text form and the bytes
\* unmarshalled into a zero Tiddler; or a block that comes from elsewhere is
\* unmarshalled.  The Tags of these tiddlers are slices of byte strings.

\* What Tiddler.MarshalText writes for a []string: the elements joined by
\* spaces, an element that contains a space in double brackets.
QuotedNever(tag) == tag
Quoted(tag) == IF Contains(tag, <<32>>) THEN <<91, 91>> \o tag \o <<93, 93>> ELSE tag
TagsText(tags) == Join([i \in 1..Len(tags) |-> Quoted(tags[i])], <<32>>)

\* One header line, "%s: %s\n" or "%s: %v\n".
HeaderLine(f, v) ==
    Bytes[f] \o <<58, 32>> \o (IF f = "tags" THEN TagsText(Elements(v)) ELSE Bytes[v])
        \o <<10>>

RECURSIVE HeaderLines(_, _)
HeaderLines(obj, order) ==
    IF order = <<>> THEN <<>>
    ELSE HeaderLine(Head(order), obj[Head(order)]) \o HeaderLines(obj, Tail(order))

\* The bytes of Tiddler.MarshalText when its range loop visits the keys of the
\* object in this order.
TextOf(obj, order) ==
    HeaderLines(obj, order) \o <<10>> \o (IF "text" \in DOMAIN obj THEN obj["text"] ELSE <<>>)

RECURSIVE ScanTags(_, _, _)
\* The loop of UnmarshalText over the split value of the tags line: the words
\* not yet seen, the tags found, and the bracketed span that is open.
ScanTags(split, tags, tag) ==
    IF split = <<>>
    THEN IF tag # <<>> THEN Append(tags, TrimPrefix(TrimSpace(tag), <<91, 91>>)) ELSE tags
    ELSE LET t == Head(split)
             trimmed == TrimSpace(t)
             span == tag \o <<32>> \o t
         IN  IF tag = <<>> /\ ~StartsWith(trimmed, <<91, 91>>)
             THEN ScanTags(Tail(split), Append(tags, trimmed), tag)
             ELSE IF EndsWith(trimmed, <<93, 93>>)
             THEN ScanTags(Tail(split),
                           Append(tags, TrimSuffix(TrimPrefix(TrimSpace(span), <<91, 91>>),
                                                   <<93, 93>>)),
                           <<>>)
             ELSE ScanTags(Tail(split), tags, span)

\* bufio.Reader.ReadLine on bytes that are not empty: the line without its
\* line break, and the bytes after it.
ReadLine(data) ==
    LET i == Index(data, <<10>>)
        line == IF i = 0 THEN data ELSE SubSeq(data, 1, i - 1)
    IN  [line |-> IF i # 0 THEN TrimSuffix(line, <<13>>) ELSE line,
         rest |-> IF i = 0 THEN <<>> ELSE SubSeq(data, i + 1, Len(data))]

RECURSIVE ReadHeader(_, _)
\* The loop of UnmarshalText over the lines: [err, obj, text].
ReadHeader(data, obj) ==
    IF data = <<>> THEN [err |-> "MalformedInput", obj |-> obj, text |-> <<>>]
    ELSE LET r == ReadLine(data)
             p == SplitN2(r.line, <<58, 32>>)
         IN  IF r.line = <<>> THEN [err |-> "", obj |-> obj, text |-> r.rest]
             ELSE IF Len(p) # 2 THEN [err |-> "MalformedInput", obj |-> obj, text |-> <<>>]
             ELSE IF String(p[1]) = "tags"
             THEN ReadHeader(r.rest,
                             ("tags" :> Slice(ScanTags(Split(p[2], <<32>>), <<>>, <<>>))) @@ obj)
             ELSE ReadHeader(r.rest, (String(p[1]) :> String(p[2])) @@ obj)

\* Tags of at most MaxTagLen bytes out of: tab, line feed, space, "[", "]", "a".
TextTags == UNION {[1..n -> {9, 10, 32, 91, 93, 97}] : n \in 1..MaxTagLen}

TagLists ==
    {<<>>} \cup {<<x>> : x \in TextTags}
        \cup UNION {{<<x, <<97, 32, 97>>>>, <<<<97, 32, 97>>, x>>} : x \in TextTags}

\* Bodies: none, "b", and "b", a blank line, "c".
TextTiddlers ==
    {[Tiddler("Foo", "", "", "", <<>>, Slice(tags)) EXCEPT !.Text = text] :
        tags \in TagLists, text \in {<<>>}}
        \cup {[Tiddler("Foo", "", "", "", <<>>, Slice(tags)) EXCEPT !.Text = text] :
                tags \in {<<>>, <<<<97, 32, 97>>>>}, text \in {<<98>>, <<98, 10, 10, 99>>}}

\* "tags: a [[b c]]\n\nbody"
TextBlock == <<116, 97, 103, 115, 58, 32, 97, 32, 91, 91, 98, 32, 99, 93, 93, 10, 10, 98, 111, 100, 121>>

MarshalText(p) ==
    /\ pc[p] = "marshal_text"
    /\ LET obj == ToJSONObject(frame[p].arg)
       IN  \E order \in Orders(DOMAIN obj \ {"text"}) :
              Goto(p, "unmarshal_text", [frame[p] EXCEPT !.data = TextOf(obj, order)])
    /\ UNCHANGED <<nodes, nops, faults, overlap, now>>

UnmarshalText(p) ==
    /\ pc[p] = "unmarshal_text"
    /\ LET f == frame[p]
           r == ReadHeader(f.data, <<>>)
       IN  IF r.err # "" THEN Fail(p, f, r.err)
           ELSE Return(p, [f EXCEPT !.out =
                              <<MergeFrom(BlankTiddler, ("text" :> r.text) @@ r.obj)>>])
    /\ UNCHANGED <<nodes, nops, faults, overlap, now>>

TextInputs ==
    {[BlankFrame EXCEPT !.kind = "text", !.arg = t] : t \in TextTiddlers}
        \cup {[BlankFrame EXCEPT !.kind = "decode_text", !.data = TextBlock]}

InitText ==
    /\ nodes = <<IndexNode>>
    /\ \E f \in TextInputs :
          /\ frame = [p \in Procs |-> IF p = "p1" THEN f ELSE BlankFrame]
          /\ pc = [p \in Procs |->
                      IF p # "p1" THEN "idle"
                      ELSE IF f.kind = "text" THEN "marshal_text" ELSE "unmarshal_text"]
    /\ nops = 1
    /\ lastWrite = NoWrite
    /\ lastPut = [k \in Keys |-> NoPut]
    /\ faults = FALSE
    /\ overlap = FALSE
    /\ now = 0

NextText == MarshalText("p1") \/ UnmarshalText("p1")

SpecText == InitText /\ [][NextText]_vars

\* Timed runs: the store holds the tiddler Foo of bag default, put before the
\* run starts, and the clock advances between operations.
InitETag ==
    /\ nodes = <<IndexNode, TaggedNode({})>>
    /\ pc = [p \in Procs |-> "idle"]
    /\ frame = [p \in Procs |-> BlankFrame]
    /\ nops = 0
    /\ lastWrite = NoWrite
    /\ lastPut = [k \in Keys |->
                    IF k = <<"default", "Foo">>
                    THEN [NoPut EXCEPT !.state = "put", !.Text = TextHi]
                    ELSE NoPut]
    /\ faults = FALSE
    /\ overlap = FALSE
    /\ now = 0

Tick ==
    /\ now < MaxTicks
    /\ \A p \in Procs : pc[p] \in {"idle", "done"}
    /\ now' = now + 1
    /\ UNCHANGED <<nodes, pc, frame, nops, faults, overlap, lastWrite, lastPut>>

NextETag == Next \/ Tick

SpecETag == InitETag /\ [][NextETag]_vars

-----------------------------------------------------------------------------
\* Properties

\* The permanodes of a store that are not tombstoned and carry the pair.
LiveNodes(ns, bag, title) ==
    {i \in 1..Len(ns) : ~ns[i].deleted /\ ns[i].bag = bag /\ ns[i].title = title}

Finished(p, kind) == pc[p] = "done" /\ frame[p].kind = kind
Succeeded(p, kind) == Finished(p, kind) /\ frame[p].err = ""

\* C1: with operations one after the other and no failing store call, at most
\* one permanode that is not tombstoned carries a given (tiddlerBag, title),
\* and a put that succeeds has allocated a permanode exactly when the store
\* held no such permanode for its bag and title; else it used that one.
C1_OneNodePerBagTitle ==
    /\ \A k \in Keys : Cardinality(LiveNodes(nodes, k[1], k[2])) <= 1
    /\ \A p \in Procs :
          Succeeded(p, "put") =>
              LET f == frame[p]
                  had == LiveNodes(f.pre, f.t.Bag, f.t.Title)
              IN  IF had # {}
                  THEN Len(nodes) = Len(f.pre) /\ f.ref.Ref \in had
                  ELSE Len(nodes) = Len(f.pre) + 1 /\ f.ref.Ref = Len(nodes)

\* A put that found the permanode of its bag and title, among the permanodes
\* of two tiddlers, and allocated none.
C1_Witness ==
    \E p \in Procs :
        /\ Succeeded(p, "put")
        /\ LiveNodes(frame[p].pre, frame[p].t.Bag, frame[p].t.Title) # {}
        /\ Len(nodes) = 3

\* Whether the last write that returned before operation p started was a
\* successful put of the tiddler p puts.
RepeatsLastPut(p) ==
    /\ frame[p].kind = "put"
    /\ frame[p].prior.kind = "put"
    /\ frame[p].prior.ok
    /\ frame[p].prior.arg = frame[p].arg

\* C2: a put that repeats the successful put before it, with no write in
\* between, allocates no permanode and uploads no claim, and leaves the store
\* as it was.
C2_IdempotentPut ==
    \A p \in Procs :
        Succeeded(p, "put") /\ RepeatsLastPut(p) =>
            /\ frame[p].log = <<>>
            /\ nodes = frame[p].pre

\* A repeated put of a tiddler with two tags has returned.
C2_Witness ==
    \E p \in Procs :
        /\ Succeeded(p, "put")
        /\ RepeatsLastPut(p)
        /\ frame[p].arg.Tags = {"a", "b"}

\* C3: after a put that succeeds, the tag attribute of its permanode has
\* exactly the tags of the tiddler.
C3_TagsAreThePutTags ==
    \A p \in Procs :
        Succeeded(p, "put") => nodes[frame[p].ref.Ref].tags = frame[p].arg.Tags

\* A put of tags {b, c} on a permanode that carried {a, b} has returned.
C3_Witness ==
    \E p \in Procs :
        /\ Succeeded(p, "put")
        /\ frame[p].ref.Tags = {"a", "b"}
        /\ frame[p].arg.Tags = {"b", "c"}
        /\ frame[p].ref.Ref \in 1..Len(frame[p].pre)
        /\ frame[p].pre[frame[p].ref.Ref].tags = {"a", "b"}

\* A get by title and bag, with the text included, of a pair whose last
\* successful write was a put.
GetsLastPut(p) ==
    /\ Finished(p, "get")
    /\ frame[p].filter
    /\ frame[p].arg.Ref = 0
    /\ <<frame[p].arg.Bag, frame[p].arg.Title>> \in Keys
    /\ lastPut[<<frame[p].arg.Bag, frame[p].arg.Title>>].state = "put"

\* C4 as claimed: the get returns the Title, Type, Text and tags of that put,
\* and no put fails with UnsupportedRecipe.
C4_ReadYourWrite ==
    \A p \in Procs :
        /\ Finished(p, "put") => frame[p].err # "UnsupportedRecipe"
        /\ GetsLastPut(p) =>
              LET f == frame[p]
                  put == lastPut[<<f.arg.Bag, f.arg.Title>>]
              IN  /\ f.err = ""
                  /\ f.out[1].Title = f.arg.Title
                  /\ f.out[1].Type = put.Type
                  /\ f.out[1].Text = put.Text
                  /\ f.out[1].Tags = put.Tags

\* The text a get returns for a tiddler that was put with this type and text:
\* a text that is stored base64-decoded comes back as the standard encoding
\* of its bytes, without the line breaks DecodeString skipped and with the
\* unused bits of its last character cleared.
Canonical(type, text) ==
    IF type \in Base64Types THEN EncodeToString(DecodeString(text).bytes) ELSE text

\* C4, amended: as claimed, but the Text of a tiddler whose type is stored
\* base64-decoded comes back in the standard encoding of the decoded bytes,
\* which is the Text of the put only when that was in this form.
C4_ReadYourWriteCanonical ==
    \A p \in Procs :
        /\ Finished(p, "put") => frame[p].err # "UnsupportedRecipe"
        /\ GetsLastPut(p) =>
              LET f == frame[p]
                  put == lastPut[<<f.arg.Bag, f.arg.Title>>]
              IN  /\ f.err = ""
                  /\ f.out[1].Title = f.arg.Title
                  /\ f.out[1].Type = put.Type
                  /\ f.out[1].Tags = put.Tags
                  /\ f.out[1].Text = Canonical(put.Type, put.Text)
                  /\ put.Type \notin Base64Types \/ put.Text = TextB64
                        => f.out[1].Text = put.Text

\* A get of bag "default" has returned the text of a put that gave no bag and
\* recipe "x", after an earlier put of the same title.
C4_Witness ==
    \E p \in Procs :
        /\ GetsLastPut(p)
        /\ frame[p].arg.Bag = "default"
        /\ frame[p].out # <<>>
        /\ frame[p].out[1].Text = TextB64
        /\ frame[p].out[1].Type = "image/png"
        /\ lastWrite.kind = "put"
        /\ lastWrite.arg.Bag = ""
        /\ lastWrite.arg.Recipe = "x"
        /\ Len(nodes) = 2
        /\ nops = 3

\* The tag claims of a put so far, and those it is still going to upload.
IsTagClaim(c) == c.attr = "tag"
TagOpOf(c) == TagOp(c.op, c.value)
Emitted(f) ==
    LET cs == SelectSeq(f.log, IsTagClaim)
    IN  [i \in 1..Len(cs) |-> TagOpOf(cs[i])] \o f.pending

\* The number of places of a sequence that hold a value.
Count(ops, o) == Cardinality({i \in 1..Len(ops) : ops[i] = o})

\* C5: updateTags uploads nothing when the tag sets are equal; one set claim
\* and nothing else when one tag is wanted; else one add per tag only wanted
\* and one delete per tag only existing, every add before every delete, and
\* nothing on a tag of both sets.
C5_Reconcile ==
    \A p \in Procs :
        frame[p].kind = "put" /\ frame[p].err = "" /\ pc[p] \in {"tags", "done"} =>
            LET existing == frame[p].ref.Tags
                wanted == frame[p].t.Tags
                ops == Emitted(frame[p])
            IN  IF existing = wanted THEN ops = <<>>
                ELSE IF Cardinality(wanted) = 1
                THEN \E x \in wanted : ops = <<TagOp("set", x)>>
                ELSE /\ \A x \in wanted \ existing : Count(ops, TagOp("add", x)) = 1
                     /\ \A x \in existing \ wanted : Count(ops, TagOp("del", x)) = 1
                     /\ Len(ops) = Cardinality(wanted \ existing)
                                    + Cardinality(existing \ wanted)
                     /\ \A i, j \in 1..Len(ops) :
                           ops[i].op = "del" /\ ops[j].op = "add" => j < i

\* updateTags on existing {a, b} and wanted {b, c} has returned.
C5_Witness ==
    \E p \in Procs :
        /\ Succeeded(p, "put")
        /\ frame[p].ref.Tags = {"a", "b"}
        /\ frame[p].t.Tags = {"b", "c"}
        /\ Emitted(frame[p]) = <<TagOp("add", "c"), TagOp("del", "a")>>

\* C6 as claimed: once two overlapping puts of the same bag and title have
\* both succeeded, at most one permanode that is not tombstoned carries the
\* pair.
C6_OverlappingPutsOneNode ==
    (\A p \in Procs : Succeeded(p, "put"))
        => \A k \in Keys : Cardinality(LiveNodes(nodes, k[1], k[2])) <= 1

\* A finished operation whose query for a title and bag failed.
QueryFailed(p) ==
    /\ pc[p] = "done"
    /\ frame[p].kind \in {"put", "get", "delete"}
    /\ frame[p].arg.Ref = 0
    /\ frame[p].fault = "resolve"

\* C7 as claimed: an operation whose query failed returns the store's error,
\* has allocated no permanode and has uploaded no claim.
C7_QueryFailurePropagates ==
    \A p \in Procs :
        QueryFailed(p) =>
            /\ frame[p].err = "StoreError"
            /\ frame[p].log = <<>>
            /\ Len(nodes) = Len(frame[p].pre)

\* A put that uploaded both blobs, resolved a permanode the store already
\* held, and then returned the store's error.
FailedOnExisting(p) ==
    /\ Finished(p, "put")
    /\ frame[p].err = "StoreError"
    /\ frame[p].textBlobRef # ZeroRef
    /\ frame[p].metaBlobRef # ZeroRef
    /\ frame[p].ref.Ref \in 1..Len(frame[p].pre)

AddressesDeleted(p) ==
    /\ frame[p].arg.Ref = 0
    /\ <<frame[p].arg.Bag, frame[p].arg.Title>> \in Keys
    /\ frame[p].priorPut[<<frame[p].arg.Bag, frame[p].arg.Title>>].state = "deleted"

\* The tombstoned permanodes of a store that carry the pair.
Tombstoned(ns, bag, title) ==
    {i \in 1..Len(ns) : ns[i].deleted /\ ns[i].bag = bag /\ ns[i].title = title}

\* C9: a delete that succeeds uploads one delete claim and nothing else, and
\* leaves every attribute of the permanode; from then until the next put of
\* the pair, a get or a delete of it returns NotFound and no list returns it;
\* and that put allocates a permanode and leaves the tombstoned one alone.
C9_DeletedUntilPut ==
    \A p \in Procs :
        LET f == frame[p]
        IN  /\ Succeeded(p, "delete") =>
                  /\ f.log = <<NewDeleteClaim(f.ref.Ref)>>
                  /\ nodes = [f.pre EXCEPT ![f.ref.Ref].deleted = TRUE]
            /\ (Finished(p, "get") \/ Finished(p, "delete")) /\ AddressesDeleted(p) =>
                  f.err = "NotFound" /\ f.log = <<>> /\ nodes = f.pre
            /\ (Finished(p, "listBag") \/ Finished(p, "listRecipe")) =>
                  \A i \in 1..Len(f.out) :
                      lastPut[<<f.out[i].Bag, f.out[i].Title>>].state # "deleted"
            /\ Succeeded(p, "put") /\ LiveNodes(f.pre, f.t.Bag, f.t.Title) = {}
                    /\ Tombstoned(f.pre, f.t.Bag, f.t.Title) # {} =>
                  /\ f.ref.Ref = Len(f.pre) + 1
                  /\ SubSeq(nodes, 1, Len(f.pre)) = f.pre

\* A put has allocated a permanode for a pair whose permanode was tombstoned.
C9_Witness ==
    \E p \in Procs :
        /\ Succeeded(p, "put")
        /\ Tombstoned(frame[p].pre, frame[p].t.Bag, frame[p].t.Title) # {}
        /\ frame[p].ref.Ref = Len(frame[p].pre) + 1
        /\ ~nodes[frame[p].ref.Ref].deleted

\* Whether the ref of a delete designated no tiddler permanode when the delete
\* started: no permanode that is not tombstoned has its title and bag, or its
\* Ref is a permanode without a tiddlerBag.
NoSuchTiddler(p) ==
    LET f == frame[p]
    IN  IF f.arg.Ref # 0
        THEN f.arg.Ref \in 1..Len(f.pre) /\ f.pre[f.arg.Ref].bag = ""
        ELSE RefError(f.arg) = "" /\ Query(f.pre, RefConstraint(f.arg)) = {}

\* C10 as claimed: a delete of a ref that designates no tiddler permanode
\* returns NotFound and uploads no claim.
C10_DeleteOfNoTiddler ==
    \A p \in Procs :
        Finished(p, "delete") /\ NoSuchTiddler(p) =>
            frame[p].err = "NotFound" /\ frame[p].log = <<>>

\* An operation that resolves without creating a permanode.
ReadOnlyKinds == {"get", "listBag", "listRecipe", "etag"}

\* Operation p resolves in this step a ref whose Ref, TextRef and MetaRef are
\* populated.
ResolvesResolved(p) ==
    /\ pc[p] = "resolve"
    /\ IsResolved(frame[p].ref)
    /\ <<pc[p], frame[p]>> # <<pc'[p], frame'[p]>>

\* C11: an operation that resolves without creation allocates no permanode
\* and uploads no claim, whether it returns an error or not; an ETag
\* constructed for a bag and title names the permanode the ETag before it
\* named when no write returned in between; and the resolution of a ref whose
\* Ref, TextRef and MetaRef are populated makes no call into the store and
\* leaves the ref as it is.
C11_ResolveReadOnly ==
    /\ [](\A p \in Procs :
            frame[p].kind \in ReadOnlyKinds =>
                /\ frame[p].log = <<>>
                /\ nodes = frame[p].pre
                /\ Succeeded(p, "etag") =>
                      LET was == frame[p].priorPut[WriteKey(frame[p])]
                      IN  was.etag # <<>> /\ ~was.written =>
                              frame[p].out[1].ref = was.etag.ref)
    /\ [][\A p \in Procs :
            ResolvesResolved(p) =>
                /\ frame'[p].ref = frame[p].ref
                /\ frame'[p].calls = frame[p].calls
                /\ nodes' = nodes]_vars

\* A list has got a tiddler from a resolved ref, after an ETag was
\* constructed twice for one tiddler with a get in between.
C11_Witness ==
    \E p \in Procs :
        /\ Succeeded(p, "etag")
        /\ frame[p].priorPut[WriteKey(frame[p])].etag # <<>>
        /\ ~frame[p].priorPut[WriteKey(frame[p])].written
        /\ frame[p].out[1].ref = 2

\* The ref an operation that has returned gave to ResolveRef, <<>> when it
\* gave none or one with a valid Ref.
RefGiven(p) ==
    LET f == frame[p]
    IN  IF pc[p] # "done" \/ f.kind \notin {"put", "get", "delete", "etag"} THEN <<>>
        ELSE IF f.kind = "put"
        THEN IF f.metaBlobRef = ZeroRef THEN <<>>
             ELSE <<[Title |-> f.arg.Title,
                     Bag |-> IF f.arg.Bag = "" THEN "default" ELSE f.arg.Bag,
                     Recipe |-> f.arg.Recipe]>>
        ELSE IF f.arg.Ref # 0 THEN <<>>
        ELSE <<[Title |-> f.arg.Title, Bag |-> f.arg.Bag, Recipe |-> f.arg.Recipe]>>

\* C12: the resolution of a ref without a valid Ref returns InvalidReference
\* when the title is empty or bag and recipe are both empty, and
\* UnsupportedRecipe when the bag is empty and the recipe is neither "all"
\* nor "system"; in each case no permanode is allocated and no claim is
\* uploaded, also when the caller is a put.  ListRecipe of such a recipe
\* returns UnsupportedRecipe and no tiddler.
C12_ValidationFirst ==
    \A p \in Procs :
        /\ RefGiven(p) # <<>> =>
              LET r == RefGiven(p)[1]
                  f == frame[p]
              IN  /\ r.Title = "" \/ (r.Bag = "" /\ r.Recipe = "") =>
                        f.err = "InvalidReference" /\ f.log = <<>> /\ nodes = f.pre
                  /\ r.Title # "" /\ r.Bag = "" /\ r.Recipe \notin {"", "all", "system"} =>
                        f.err = "UnsupportedRecipe" /\ f.log = <<>> /\ nodes = f.pre
        /\ Finished(p, "listRecipe") /\ frame[p].arg \notin {"all", "system"} =>
              frame[p].err = "UnsupportedRecipe" /\ frame[p].out = <<>>

\* A put of a tiddler without a title has returned, on a store that holds a
\* tiddler.
C12_Witness ==
    \E p \in Procs :
        /\ Finished(p, "put")
        /\ RefGiven(p) # <<>>
        /\ frame[p].arg.Title = ""
        /\ frame[p].err = "InvalidReference"
        /\ Len(nodes) = 2

\* C13 as claimed: the ETag constructed for a tiddler is the ETag constructed
\* for it before when no write returned in between, and differs from it when
\* a put that changed its body or its metadata succeeded in between.
C13_ETagFollowsWrites ==
    \A p \in Procs :
        Succeeded(p, "etag") =>
            LET was == frame[p].priorPut[WriteKey(frame[p])]
            IN  /\ was.etag # <<>> /\ ~was.written => frame[p].out[1] = was.etag
                /\ was.etag # <<>> /\ was.changed => frame[p].out[1] # was.etag

\* C14 as claimed: a request that fails with NotFound, InvalidReference,
\* UnsupportedRecipe or MalformedInput is answered with a 4xx status, and one
\* that fails with an error of the store with a 5xx status.
C14_StatusByKind ==
    \A p \in Procs :
        pc[p] = "done" =>
            /\ frame[p].err \in {"NotFound", "InvalidReference", "UnsupportedRecipe",
                                 "MalformedInput"} =>
                  frame[p].status \in 400..499
            /\ frame[p].err = "StoreError" => frame[p].status \in 500..599

\* C15 as claimed: UnmarshalJSON of an object whose revision is no RFC 3339
\* timestamp returns MalformedInput and no tiddler.
C15_BadRevisionRejected ==
    \A p \in Procs :
        /\ pc[p] = "done"
        /\ frame[p].kind \in {"json", "decode"}
        /\ frame[p].data[1] = "json"
        /\ "revision" \in DOMAIN frame[p].data[2]
        /\ ~Parse(frame[p].data[2]["revision"]).ok
        => frame[p].err = "MalformedInput" /\ frame[p].out = <<>>

\* The keys ToJSONObject writes itself, which a tiddler's Fields must not use.
ReservedKeys == MergedKeys \cup {"tiddlykeep-ref"}

\* C16 as claimed: a tiddler with a title and no reserved key in its Fields
\* that is marshalled to JSON and unmarshalled comes back with the same
\* Title, Revision, Bag, Recipe, Type, Text, Tags, Permissions, Created,
\* Creator, Modified, Modifier and Fields.
C16_JSONRoundTrip ==
    \A p \in Procs :
        Finished(p, "json") /\ frame[p].arg.Title # ""
                /\ DOMAIN frame[p].arg.Fields \cap ReservedKeys = {} =>
            /\ frame[p].err = ""
            /\ frame[p].out # <<>>
            /\ LET t == frame[p].arg
                   u == frame[p].out[1]
               IN  /\ u.Title = t.Title /\ u.Revision = t.Revision /\ u.Bag = t.Bag
                   /\ u.Recipe = t.Recipe /\ u.Type = t.Type /\ u.Text = t.Text
                   /\ u.Tags = t.Tags /\ u.Permissions = t.Permissions
                   /\ u.Created = t.Created /\ u.Creator = t.Creator
                   /\ u.Modified = t.Modified /\ u.Modifier = t.Modifier
                   /\ u.Fields = t.Fields

\* The tags of a slice.
TagsOf(slice) == {e[2] : e \in slice}

\* Whether the block TextBlock was unmarshalled to tags "a", "b c" and the
\* text "body".
BlockDecoded(p) ==
    Finished(p, "decode_text") =>
        /\ frame[p].err = ""
        /\ frame[p].out[1].Tags = Slice(<<<<97>>, <<98, 32, 99>>>>)
        /\ frame[p].out[1].Text = <<98, 111, 100, 121>>

WithoutMeta(p) ==
    LET f == frame[p]
    IN  /\ f.arg.Ref = 0
        /\ RefError(f.arg) = ""
        /\ Query(f.pre, RefConstraint(f.arg)) # {}
        /\ searchTiddlers(f.pre, RefConstraint(f.arg), FALSE) = {}

\* C18 as claimed: a delete or an ETag construction for a pair whose only
\* permanode has no metadata fails with NotFound (or with the error of a
\* store call of its own that failed), and uploads no claim.
C18_MetaRequired ==
    \A p \in Procs :
        (Finished(p, "delete") \/ Finished(p, "etag")) /\ WithoutMeta(p) =>
            /\ frame[p].err \in {"NotFound", "StoreError"}
            /\ frame[p].log = <<>>

\* Whether p is a put of a pair that no put or delete had succeeded on when p
\* started, and that a permanode carried all the same: the permanode of a put
\* that failed after its title and tiddlerBag claims.
Retries(p) ==
    LET f == frame[p]
    IN  /\ Finished(p, "put")
        /\ <<f.t.Bag, f.t.Title>> \in Keys
        /\ f.priorPut[<<f.t.Bag, f.t.Title>>].state = "none"
        /\ LiveNodes(f.pre, f.t.Bag, f.t.Title) # {}

\* C19 as claimed: the later put resolves to the permanode the failed put
\* left, allocates no permanode, and when it succeeds the permanode has its
\* body, metadata and tags.
C19_RetryConverges ==
    \A p \in Procs :
        Retries(p) =>
            LET f == frame[p]
            IN  /\ Len(nodes) = Len(f.pre)
                /\ f.ref.Ref # 0 => f.ref.Ref \in LiveNodes(f.pre, f.t.Bag, f.t.Title)
                /\ f.err = "" =>
                      /\ nodes[f.ref.Ref].content = f.textBlobRef
                      /\ nodes[f.ref.Ref].meta = f.metaBlobRef
                      /\ nodes[f.ref.Ref].tags = f.t.Tags

\* The claims of an attribute in the log of an operation.
ClaimsOf(f, attr) == {i \in 1..Len(f.log) : f.log[i].attr = attr}

\* The permanode a put resolved to, as it was when the put started; a
\* permanode the put allocated had no attribute.
Current(f) == IF f.ref.Ref \in 1..Len(f.pre) THEN f.pre[f.ref.Ref] ELSE NewNode

\* C20: a put that succeeds has uploaded a camliContent claim, one, for the
\* body's blob, exactly when that blob's ref differs from the camliContent
\* the permanode had, and a tiddlerMeta claim, one, for the metadata blob,
\* exactly when that blob's ref differs from the tiddlerMeta it had.
C20_HandleClaimsIffChanged ==
    \A p \in Procs :
        Succeeded(p, "put") =>
            LET f == frame[p]
                content == ClaimsOf(f, "camliContent")
                meta == ClaimsOf(f, "tiddlerMeta")
            IN  /\ content # {} <=> f.textBlobRef # Current(f).content
                /\ meta # {} <=> f.metaBlobRef # Current(f).meta
                /\ Cardinality(content) <= 1 /\ Cardinality(meta) <= 1
                /\ \A i \in content :
                      f.log[i] = NewSetAttributeClaim(f.ref.Ref, "camliContent", f.textBlobRef)
                /\ \A i \in meta :
                      f.log[i] = NewSetAttributeClaim(f.ref.Ref, "tiddlerMeta", f.metaBlobRef)

\* A put on a permanode that had body and metadata has changed the metadata
\* alone: it has uploaded a tiddlerMeta claim and no camliContent claim.
C20_Witness ==
    \E p \in Procs :
        /\ Succeeded(p, "put")
        /\ Current(frame[p]).content # ZeroRef
        /\ Current(frame[p]).meta # ZeroRef
        /\ ClaimsOf(frame[p], "tiddlerMeta") # {}
        /\ ClaimsOf(frame[p], "camliContent") = {}

\* The steps of a put from the resolution of its node on.
ClaimSteps ==
    {"resolve", "permanode", "title", "bag", "vis", "content", "meta", "update_tags", "tags"}

\* Whether a put stopped before its node was resolved: while decoding the
\* body, or in one of the two uploads.
FailedInUpload(p) ==
    /\ Finished(p, "put")
    /\ \/ frame[p].err = "MalformedInput"
       \/ frame[p].err = "StoreError" /\ frame[p].fault \in {"upload_text", "upload_meta"}

\* C21: a put that is resolving its node, or has allocated a permanode or
\* uploaded a claim, has uploaded the body and the metadata; a put that failed
\* while decoding or in an upload has allocated no permanode and uploaded no
\* claim; and in the claims of a put no tiddlerMeta claim comes before a
\* camliContent claim, and no tag claim before either of them.
C21_ContentBeforeClaims ==
    \A p \in Procs :
        LET f == frame[p]
        IN  f.kind = "put" =>
              /\ pc[p] \in ClaimSteps \/ f.log # <<>> \/ Len(nodes) # Len(f.pre) =>
                    f.textBlobRef # ZeroRef /\ f.metaBlobRef # ZeroRef
              /\ FailedInUpload(p) => f.log = <<>> /\ nodes = f.pre
              /\ \A i, j \in 1..Len(f.log) :
                    i < j =>
                      /\ ~(f.log[i].attr = "tiddlerMeta" /\ f.log[j].attr = "camliContent")
                      /\ ~(f.log[i].attr = "tag" /\ IsHandleClaim(f.log[j]))

\* A put has failed in the upload of its metadata, the body uploaded.
C21_Witness ==
    \E p \in Procs :
        /\ FailedInUpload(p)
        /\ frame[p].fault = "upload_meta"
        /\ frame[p].textBlobRef # ZeroRef
        /\ frame[p].log = <<>>

\* C22: every permanode with a tiddlerMeta attribute has a camliContent
\* attribute, a title and a tiddlerBag; a get that fetches metadata or body
\* has a ref with a TextRef, and so has every tiddler a list returns.
C22_MetaImpliesContent ==
    /\ \A i \in 1..Len(nodes) :
          nodes[i].meta # ZeroRef =>
              nodes[i].content # ZeroRef /\ nodes[i].title # "" /\ nodes[i].bag # ""
    /\ \A p \in Procs :
          /\ pc[p] \in {"fetch_meta", "fetch_text"} => frame[p].ref.TextRef # ZeroRef
          /\ frame[p].kind \in {"listBag", "listRecipe"} =>
                \A i \in 1..Len(frame[p].out) :
                    nodes[frame[p].out[i].Ref].content # ZeroRef

\* A put has failed at a tag claim, and its permanode has metadata and body.
C22_Witness ==
    \E p \in Procs :
        /\ Finished(p, "put")
        /\ frame[p].err = "StoreError"
        /\ frame[p].fault = "tags"
        /\ nodes[frame[p].ref.Ref].meta # ZeroRef
        /\ nodes[frame[p].ref.Ref].content # ZeroRef

====
